---- MODULE Spec2Model ----
(***************************************************************************)
(* The two-phase crawl of src/background/tools/web_search.ts: WebSearch.   *)
(* execute -> deepSearch -> doDetailLinkGroups (link discovery) ->         *)
(* doPageContent (content extraction), driven by tab lifecycle events that *)
(* chrome.tabs.onUpdated publishes on the module-level tabsUpdateEvent.    *)
(*                                                                         *)
(* Scheduling is the JavaScript event loop: a step of the model is one     *)
(* macrotask (a browser event, a timer, the resolution of a browser call)  *)
(* run up to the next real suspension point.  A continuation that a        *)
(* countDown() has made ready runs before any further macrotask            *)
(* (MicrotaskPending).                                                     *)
(***************************************************************************)
EXTENDS Integers, Sequences, FiniteSets, TLC

\* ---- bounds of the model ----
MaxSearch == 2      \* search requests handed to deepSearch
MaxLinks == 2       \* candidate links the discovery tabs of one task answer, in all
MaxNum == 1         \* largest explicit maxResults / detailsMaxNum
MaxClock == 2       \* last millisecond of the clock the two tasks start on

\* ---- program constants ----
DefaultMaxResults == 5

VARIABLES
  pc,               \* position of execute/deepSearch
  via,              \* "none" | "execute" | "direct": who called deepSearch
  maxResults,       \* execute's params.maxResults: <<>> absent, <<n>> given
  searchs,          \* searchs.length
  detailsMaxNum,
  window,           \* "none" | "caller" | "created"
  closeWindow,
  removedWindows,   \* windows handed to chrome.windows.remove
  i,                \* loop index of doDetailLinkGroups (1-based)
  dLatch,           \* countDownLatch of doDetailLinkGroups: remaining count
  dHow,             \* how its await returned: "none" | "count" | "timeout"
  detailLinkGroups, \* the shared array, also searchInfo.result
  searchInfo,       \* total, running, succeed, failed, failedLinks
  cursor,           \* <<i, j>> of the loops of doPageContent, <<0, 0>> when over
  eLatch,           \* countDownLatch of doPageContent
  eHow,
  st,               \* per TabSession: where its listener is
  entered,          \* per TabSession: entries into a terminal branch
  cd,               \* per TabSession: countDown() calls it made
  eventMap,         \* ids registered on tabsUpdateEvent
  tabs,             \* tabs open (created and not removed), by session
  content,          \* link.content per extraction link
  response,         \* what execute returned
  targetUrl,        \* buildDeepSearchUrl: its url argument
  searchKeyword,    \* buildDeepSearchUrl: its keyword argument
  built,            \* buildDeepSearchUrl: its return value
  now,              \* two tasks on one bus: new Date().getTime(), in ms
  taskIds,          \* two tasks on one bus: taskId per task, <<>> before it starts
  listeners,        \* two tasks on one bus: tabsUpdateEvent's map, id -> session
  subscribed        \* two tasks on one bus: per session "none" | "on" | "off"

taskVars == <<pc, via, maxResults, searchs, detailsMaxNum>>
winVars == <<window, closeWindow, removedWindows>>
phase1Vars == <<i, dLatch, dHow>>
phase2Vars == <<cursor, eLatch, eHow>>
sessVars == <<st, entered, cd, eventMap, tabs>>
urlVars == <<targetUrl, searchKeyword, built>>
busVars == <<now, taskIds, listeners, subscribed>>
vars == <<pc, via, maxResults, searchs, detailsMaxNum, window, closeWindow,
          removedWindows, i, dLatch, dHow, detailLinkGroups, searchInfo, cursor,
          eLatch, eHow, st, entered, cd, eventMap, tabs, content, response,
          targetUrl, searchKeyword, built, now, taskIds, listeners, subscribed>>

\* ---- TabSessions: eventId taskId_i (discovery), taskId_i_j (extraction) ----
Sid(ph, a, b) == [ph |-> ph, i |-> a, j |-> b]
DSids == {Sid("d", a, 0) : a \in 1..MaxSearch}
ESids == {Sid("e", a, b) : a \in 1..MaxSearch, b \in 1..MaxLinks}
Sids == DSids \cup ESids

Min(a, b) == IF a < b THEN a ELSE b

\* Array.prototype.slice(0, n) for n >= 0
\* the response kept whole, without truncation
slice_keepsAll(s, n) == s

slice(s, n) == SubSeq(s, 1, Min(n, Len(s)))

RECURSIVE TotalLinks(_)
TotalLinks(groups) ==
  IF groups = <<>> THEN 0
  ELSE Len(Head(groups).links) + TotalLinks(Tail(groups))

\* The loops "for i < detailLinkGroups.length, for j < links.length": the first
\* position at or after (a, b), read from the array as it is now.
RECURSIVE LoopPos(_, _, _)
LoopPos(groups, a, b) ==
  IF a > Len(groups) THEN <<0, 0>>
  ELSE IF b <= Len(groups[a].links) THEN <<a, b>>
  ELSE LoopPos(groups, a + 1, 1)

\* ---- character strings: a string is the sequence of its characters ----
Str_bing == <<"b", "i", "n", "g", ".", "c", "o", "m">>
Str_duckduckgo == <<"d", "u", "c", "k", "d", "u", "c", "k", "g", "o", ".", "c", "o", "m">>
Str_google == <<"g", "o", "o", "g", "l", "e", ".", "c", "o", "m">>
Str_default == <<"d", "e", "f", "a", "u", "l", "t">>
Str_bingSearch == <<"h", "t", "t", "p", "s", ":", "/", "/", "b", "i", "n", "g", ".", "c", "o", "m", "/", "s", "e", "a", "r", "c", "h", "?", "q", "=">>
Str_duckduckgoSearch == <<"h", "t", "t", "p", "s", ":", "/", "/", "d", "u", "c", "k", "d", "u", "c", "k", "g", "o", ".", "c", "o", "m", "/", "?", "q", "=">>
Str_googleSearch == <<"h", "t", "t", "p", "s", ":", "/", "/", "w", "w", "w", ".", "g", "o", "o", "g", "l", "e", ".", "c", "o", "m", "/", "s", "e", "a", "r", "c", "h", "?", "q", "=">>
Str_site == <<"s", "i", "t", "e", ":">>

\* String.prototype.indexOf(pat, from): 0-based index of the first occurrence
\* of pat at or after from, -1 when there is none
occursAt(s, pat, p) ==
  /\ p + Len(pat) <= Len(s)
  /\ SubSeq(s, p + 1, p + Len(pat)) = pat
indexOf(s, pat, from) ==
  LET start == IF from < 0 THEN 0 ELSE from
      hits == {p \in start..Len(s) : occursAt(s, pat, p)} IN
  IF hits = {} THEN -1 ELSE CHOOSE p \in hits : \A q \in hits : p <= q

\* String.prototype.substring(a, b) and substring(a)
substring(s, a, b) == SubSeq(s, a + 1, b)
substringFrom(s, a) == SubSeq(s, a + 1, Len(s))

\* String.prototype.endsWith(suf)
endsWith(s, suf) ==
  /\ Len(suf) <= Len(s)
  /\ SubSeq(s, Len(s) - Len(suf) + 1, Len(s)) = suf

\* String.prototype.trim()
RECURSIVE trim(_)
trim(s) ==
  IF s = <<>> THEN s
  ELSE IF Head(s) = " " THEN trim(Tail(s))
  ELSE IF s[Len(s)] = " " THEN trim(SubSeq(s, 1, Len(s) - 1))
  ELSE s

\* encodeURI and encodeURIComponent on the characters of the model: both
\* escape the space, encodeURIComponent also the reserved characters
RECURSIVE encodeWith(_, _)
encodeWith(s, esc) ==
  IF s = <<>> THEN <<>>
  ELSE (IF Head(s) \in DOMAIN esc THEN esc[Head(s)] ELSE <<Head(s)>>)
       \o encodeWith(Tail(s), esc)
encodeURI(s) == encodeWith(s, [c \in {" "} |-> <<"%", "2", "0">>])
encodeURIComponent(s) ==
  encodeWith(s, [c \in {" ", ":", "/", "?", "=", "+"} |->
                   CASE c = " " -> <<"%", "2", "0">>
                     [] c = ":" -> <<"%", "3", "A">>
                     [] c = "/" -> <<"%", "2", "F">>
                     [] c = "?" -> <<"%", "3", "F">>
                     [] c = "=" -> <<"%", "3", "D">>
                     [] c = "+" -> <<"%", "2", "B">>])

\* ---- deepSearchInjects and buildDeepSearchUrl ----
\* Object.keys(deepSearchInjects), in insertion order
domains == <<Str_bing, Str_duckduckgo, Str_google, Str_default>>

\* deepSearchInjects[domain].filename
filename(domain) ==
  CASE domain = Str_bing -> "bing.js"
    [] domain = Str_duckduckgo -> "duckduckgo.js"
    [] domain = Str_google -> "google.js"
    [] domain = Str_default -> "google.js"

\* deepSearchInjects["default"].buildSearchUrl (lines 79-90)
defaultBuildSearchUrl(url, keyword) ==
  LET u1 == trim(url)
      idx1 == indexOf(u1, <<"/", "/">>, 0)
      u2 == IF idx1 > -1 THEN substringFrom(u1, idx1 + 2) ELSE u1
      idx2 == indexOf(u2, <<"/">>, 2)
      u3 == IF idx2 > -1 THEN substring(u2, 0, idx2) ELSE u2 IN
  Str_googleSearch \o encodeURIComponent(Str_site \o u3 \o <<" ">> \o keyword)

\* deepSearchInjects[domain].buildSearchUrl(url, keyword)
buildSearchUrl(domain, url, keyword) ==
  CASE domain = Str_bing -> Str_bingSearch \o encodeURI(keyword)
    [] domain = Str_duckduckgo -> Str_duckduckgoSearch \o encodeURI(keyword)
    [] domain = Str_google -> Str_googleSearch \o encodeURI(keyword)
    [] domain = Str_default -> defaultBuildSearchUrl(url, keyword)

\* a suffix test without the "." or "/" before the domain
domainMatches_noSeparator(baseUrl, domain) == endsWith(baseUrl, domain)

\* the condition of the loop of buildDeepSearchUrl (lines 101-105)
domainMatches(baseUrl, domain) ==
  \/ baseUrl = domain
  \/ endsWith(baseUrl, <<".">> \o domain)
  \/ endsWith(baseUrl, <<"/">> \o domain)

buildDeepSearchUrl(url, keyword) ==
  LET idx == indexOf(url, <<"/">>, indexOf(url, <<"/", "/">>, 0) + 2)
      baseUrl == IF idx > -1 THEN substring(url, 0, idx) ELSE url
      found == {j \in 1..Len(domains) : domainMatches(baseUrl, domains[j])}
      inject == IF found = {} THEN Str_default
                ELSE domains[CHOOSE j \in found : \A k \in found : j <= k] IN
  [filename |-> filename(inject), url |-> buildSearchUrl(inject, url, keyword)]

\* ---- the target urls and keywords buildDeepSearchUrl is applied to ----
Schemes == {<<>>, <<"h", "t", "t", "p", "s", ":", "/", "/">>, <<"h", "t", "t", "p", ":", "/", "/">>}
HostPrefixes == {<<>>, <<"w", "w", "w", ".">>, <<"x">>, <<"g", "o", "o", "g", "l", "e", ".", "c", "o", "m", ".">>}
Hosts == {Str_bing, Str_duckduckgo, Str_google, Str_default, <<"e", "x", "a", "m", "p", "l", "e", ".", "o", "r", "g">>, <<"g", ".", "c", "o">>}
Paths == {<<>>, <<"/">>, <<"/", "x">>, <<"/", "x", "/", ".", "b", "i", "n", "g", ".", "c", "o", "m">>, <<":", "8", "0", "8", "0", "/", "x">>}
TargetUrls == {s \o h \o d \o q : s \in Schemes, h \in HostPrefixes, d \in Hosts, q \in Paths}
Keywords == {<<"a", "i">>, <<"a", " ", "b">>, <<"c", "/", "c", "+", "+", " ", "q", "=", "1">>}
NoUrl == [filename |-> "", url |-> <<>>]

\* utils.CountDownLatch.countDown(): decrement, floored at 0
countDown(c) == IF c > 0 THEN c - 1 ELSE 0

\* utils.CountDownLatch.await(timeout) returns when the count is 0 or when
\* the timeout elapses, whichever is first
latchAwait(c, how) ==
  \/ how = "count" /\ c = 0
  \/ how = "timeout" /\ c > 0

\* utils.MsgEvent.addListener(callback, id) and removeListener(id)
addListener(map, id) == map \cup {id}
removeListener(map, id) == map \ {id}

\* A waiter released by countDown() resumes before the next macrotask.
MicrotaskPending ==
  \/ pc = "dwait" /\ dLatch = 0
  \/ pc = "ewait" /\ eLatch = 0

TaskInit ==
  /\ pc = "idle"
  /\ via = "none"
  /\ maxResults = <<>>
  /\ searchs = 0
  /\ detailsMaxNum = 0
  /\ window = "none"
  /\ closeWindow = FALSE
  /\ removedWindows = {}
  /\ i = 0
  /\ dLatch = 0
  /\ dHow = "none"
  /\ detailLinkGroups = <<>>
  /\ searchInfo = [total |-> 0, running |-> 0, succeed |-> 0, failed |-> 0,
                   failedLinks |-> <<>>]
  /\ cursor = <<0, 0>>
  /\ eLatch = 0
  /\ eHow = "none"
  /\ st = [s \in Sids |-> "none"]
  /\ entered = [s \in Sids |-> 0]
  /\ cd = [s \in Sids |-> 0]
  /\ eventMap = {}
  /\ tabs = {}
  /\ content = [s \in ESids |-> "unset"]
  /\ response = <<>>

\* ---- two tasks on the one tabsUpdateEvent ----
Tasks == {"A", "B"}
BusLinks == {0, 1}
BusSessions ==
  {[task |-> t, ph |-> "d", i |-> 0, j |-> 0] : t \in Tasks}
  \cup {[task |-> t, ph |-> "e", i |-> 0, j |-> k] : t \in Tasks, k \in BusLinks}

\* utils.MsgEvent keeps one callback per id: addListener under an id already
\* in use replaces its callback, removeListener(id) removes whatever is there
msgEventAdd(map, id, callback) == (id :> callback) @@ map
msgEventRemove(map, id) == [x \in DOMAIN map \ {id} |-> map[x]]

BusIdle ==
  /\ now = 0
  /\ taskIds = [t \in Tasks |-> <<>>]
  /\ listeners = <<>>
  /\ subscribed = [s \in BusSessions |-> "none"]

Init ==
  /\ TaskInit
  /\ targetUrl = <<>>
  /\ searchKeyword = <<>>
  /\ built = NoUrl
  /\ BusIdle

\* ---- WebSearch.execute ----
\* maxResults || 5
orDefault(mr) == IF mr = <<>> \/ mr[1] = 0 THEN DefaultMaxResults ELSE mr[1]

\* doDetailLinkGroups up to its first await
BeginDetailLinkGroups(n) ==
  /\ detailLinkGroups' = <<>>
  /\ dLatch' = n
  /\ i' = 1
  /\ pc' = "discover"

\* the guard without its test of the "query" property
validParams_noQueryTest(kind) == kind \in {"valid", "noQuery"}

\* line 38: typeof params === "object" && params !== null && "query" in params
validParams(kind) == kind = "valid"

\* execute(params): the guard of lines 38-42, then deepSearch without a window
execute(kind, mr) ==
  /\ pc = "idle"
  /\ IF validParams(kind)
       THEN /\ via' = "execute"
            /\ maxResults' = mr
            /\ searchs' = 1
            /\ detailsMaxNum' = orDefault(mr)
            /\ pc' = "createWindow"
       ELSE /\ pc' = "invalid"
            /\ UNCHANGED <<via, maxResults, searchs, detailsMaxNum>>
  /\ UNCHANGED <<winVars, phase1Vars, detailLinkGroups, searchInfo, phase2Vars,
                 sessVars, content, response>>
  /\ UNCHANGED urlVars
  /\ UNCHANGED busVars

\* deepSearch(taskId, searchs, detailsMaxNum, window?) called on its own
deepSearch(n, num, win) ==
  /\ pc = "idle"
  /\ via' = "direct"
  /\ searchs' = n
  /\ detailsMaxNum' = num
  /\ IF win
       THEN /\ window' = "caller"
            /\ BeginDetailLinkGroups(n)
       ELSE /\ pc' = "createWindow"
            /\ UNCHANGED <<window, i, dLatch, detailLinkGroups>>
  /\ UNCHANGED <<maxResults, closeWindow, removedWindows, dHow, searchInfo,
                 phase2Vars, sessVars, content, response>>
  /\ UNCHANGED urlVars
  /\ UNCHANGED busVars

\* chrome.windows.create settles (lines 141-146)
windowsCreate(ok) ==
  /\ pc = "createWindow"
  /\ IF ok
       THEN /\ window' = "created"
            /\ closeWindow' = TRUE
            /\ BeginDetailLinkGroups(searchs)
       ELSE /\ pc' = "rejected"
            /\ UNCHANGED <<window, closeWindow, i, dLatch, detailLinkGroups>>
  /\ UNCHANGED <<via, maxResults, searchs, detailsMaxNum, removedWindows, dHow,
                 searchInfo, phase2Vars, sessVars, content, response>>
  /\ UNCHANGED urlVars
  /\ UNCHANGED busVars

\* ---- doDetailLinkGroups ----
\* the catch block leaving the loop after its countDown
discoveryTabCreate_failEndsLoop(ok) ==
  LET s == Sid("d", i, 0) IN
  /\ pc = "discover"
  /\ IF ok
       THEN /\ st' = [st EXCEPT ![s] = "listening"]
            /\ eventMap' = addListener(eventMap, s)
            /\ tabs' = tabs \cup {s}
            /\ pc' = IF i < searchs THEN "discover" ELSE "dwait"
            /\ UNCHANGED <<dLatch, cd>>
       ELSE /\ st' = [st EXCEPT ![s] = "openFailed"]
            /\ dLatch' = countDown(dLatch)
            /\ cd' = [cd EXCEPT ![s] = @ + 1]
            /\ pc' = "dwait"
            /\ UNCHANGED <<eventMap, tabs>>
  /\ i' = i + 1
  /\ UNCHANGED <<via, maxResults, searchs, detailsMaxNum, winVars, dHow,
                 detailLinkGroups, searchInfo, phase2Vars, entered, content,
                 response>>
  /\ UNCHANGED urlVars
  /\ UNCHANGED busVars

\* chrome.tabs.create of search i settles: subscribe, or catch and countDown;
\* then the next iteration, or the await of the barrier
discoveryTabCreate(ok) ==
  LET s == Sid("d", i, 0) IN
  /\ pc = "discover"
  /\ IF ok
       THEN /\ st' = [st EXCEPT ![s] = "listening"]
            /\ eventMap' = addListener(eventMap, s)
            /\ tabs' = tabs \cup {s}
            /\ UNCHANGED <<dLatch, cd>>
       ELSE /\ st' = [st EXCEPT ![s] = "openFailed"]
            /\ dLatch' = countDown(dLatch)
            /\ cd' = [cd EXCEPT ![s] = @ + 1]
            /\ UNCHANGED <<eventMap, tabs>>
  /\ i' = i + 1
  /\ pc' = IF i < searchs THEN "discover" ELSE "dwait"
  /\ UNCHANGED <<via, maxResults, searchs, detailsMaxNum, winVars, dHow,
                 detailLinkGroups, searchInfo, phase2Vars, entered, content,
                 response>>
  /\ UNCHANGED urlVars
  /\ UNCHANGED busVars

\* one more entry into a terminal branch of the listener of s
Enter(s) == [entered EXCEPT ![s] = IF @ < 2 THEN @ + 1 ELSE @]

\* the "complete" branch without its removeListener(eventId)
discoveryComplete_keepsListener(s) ==
  /\ entered' = Enter(s)
  /\ st' = [st EXCEPT ![s] = "handling"]
  /\ UNCHANGED <<eventMap, dLatch, cd, tabs, searchInfo, eLatch>>

\* lines 199-200: the "complete" branch up to its first await
discoveryComplete(s) ==
  /\ entered' = Enter(s)
  /\ eventMap' = removeListener(eventMap, s)
  /\ st' = [st EXCEPT ![s] = "handling"]
  /\ UNCHANGED <<dLatch, cd, tabs, searchInfo, eLatch>>

\* lines 219-223: the "unloaded" branch
discoveryUnloaded(s) ==
  /\ entered' = Enter(s)
  /\ dLatch' = countDown(dLatch)
  /\ cd' = [cd EXCEPT ![s] = @ + 1]
  /\ tabs' = tabs \ {s}
  /\ eventMap' = removeListener(eventMap, s)
  /\ st' = [st EXCEPT ![s] = "unloaded"]
  /\ UNCHANGED <<searchInfo, eLatch>>

\* lines 277-279: the "complete" branch up to its first await
extractionComplete(s) ==
  /\ entered' = Enter(s)
  /\ eventMap' = removeListener(eventMap, s)
  /\ st' = [st EXCEPT ![s] = "handling"]
  /\ UNCHANGED <<dLatch, cd, tabs, searchInfo, eLatch>>

\* the "unloaded" branch counting the link as failed
extractionUnloaded_countsFailed(s) ==
  /\ entered' = Enter(s)
  /\ searchInfo' = [searchInfo EXCEPT !.running = @ - 1, !.failed = @ + 1,
                                      !.failedLinks = Append(@, s)]
  /\ eLatch' = countDown(eLatch)
  /\ cd' = [cd EXCEPT ![s] = @ + 1]
  /\ tabs' = tabs \ {s}
  /\ eventMap' = removeListener(eventMap, s)
  /\ st' = [st EXCEPT ![s] = "unloaded"]
  /\ UNCHANGED dLatch

\* lines 304-309: the "unloaded" branch
extractionUnloaded(s) ==
  /\ entered' = Enter(s)
  /\ searchInfo' = [searchInfo EXCEPT !.running = @ - 1]
  /\ eLatch' = countDown(eLatch)
  /\ cd' = [cd EXCEPT ![s] = @ + 1]
  /\ tabs' = tabs \ {s}
  /\ eventMap' = removeListener(eventMap, s)
  /\ st' = [st EXCEPT ![s] = "unloaded"]
  /\ UNCHANGED dLatch

\* the listener registered for s, called with an event of its own tab
\* (an event of another tab returns at "obj.tabId != tab.id")
listener(s, status) ==
  IF status = "complete"
    THEN IF s.ph = "d" THEN discoveryComplete(s) ELSE extractionComplete(s)
  ELSE IF status = "unloaded"
    THEN IF s.ph = "d" THEN discoveryUnloaded(s) ELSE extractionUnloaded(s)
  ELSE UNCHANGED <<entered, eventMap, st, dLatch, cd, tabs, searchInfo, eLatch>>

\* chrome.tabs.onUpdated -> tabsUpdateEvent.publish (lines 121-123) of an event
\* of the tab of session t: every registered listener is called with it, and
\* the one whose tab it is acts up to its first await.  publish awaits the
\* listener, so it stays in flight, and overlaps every later publish, for as
\* long as the session is "handling".  An event that no registered listener takes
\* (its listener was removed, or was never added) changes nothing: it is the
\* stuttering step.
publish(t, status) ==
  /\ ~MicrotaskPending
  /\ t \in eventMap
  /\ listener(t, status)
  /\ UNCHANGED <<taskVars, winVars, i, dHow, detailLinkGroups, cursor, eHow,
                 content, response>>
  /\ UNCHANGED urlVars
  /\ UNCHANGED busVars

\* responses of the injected script to "page:getDetailLinks"
Iota(n) == [k \in 1..n |-> k]
DetailLinksOutcomes ==
  {[kind |-> k, links |-> <<>>] :
      k \in {"injectThrows", "sendThrows", "noResponse", "noLinks"}}
  \cup {[kind |-> "links", links |-> Iota(n)] : n \in 0..MaxLinks}

\* lines 202-218: the "complete" branch of the discovery listener from its
\* awaits on; an error of injectScript or sendMessage leaves the handler
discoveryResume(s, out) ==
  /\ ~MicrotaskPending
  /\ s \in DSids
  /\ st[s] = "handling"
  /\ IF out.kind \in {"injectThrows", "sendThrows"}
       THEN /\ st' = [st EXCEPT ![s] = "threw"]
            /\ UNCHANGED <<detailLinkGroups, dLatch, cd, tabs>>
       ELSE LET links == slice(out.links, detailsMaxNum) IN
            /\ TotalLinks(detailLinkGroups) + Len(links) <= MaxLinks
            /\ detailLinkGroups' =
                 Append(detailLinkGroups, [search |-> s.i, links |-> links])
            /\ dLatch' = countDown(dLatch)
            /\ cd' = [cd EXCEPT ![s] = @ + 1]
            /\ tabs' = tabs \ {s}
            /\ st' = [st EXCEPT ![s] = "done"]
  /\ UNCHANGED <<taskVars, winVars, i, dHow, searchInfo, phase2Vars, entered,
                 eventMap, content, response>>
  /\ UNCHANGED urlVars
  /\ UNCHANGED busVars

\* ---- doPageContent ----
\* lines 247-259 and the loops up to the first chrome.tabs.create
BeginPageContent ==
  LET total == TotalLinks(detailLinkGroups)
      pos == LoopPos(detailLinkGroups, 1, 1) IN
  /\ searchInfo' = [total |-> total, running |-> 0, succeed |-> 0, failed |-> 0,
                    failedLinks |-> <<>>]
  /\ eLatch' = total
  /\ cursor' = pos
  /\ pc' = IF pos = <<0, 0>> THEN "ewait" ELSE "extract"

\* the await of line 230 without its timeout: only the count releases it
detailLinkGroupsAwait_noTimeout(how) ==
  /\ pc = "dwait"
  /\ latchAwait(dLatch, "count")
  /\ how = "count"
  /\ dHow' = how
  /\ BeginPageContent
  /\ UNCHANGED <<via, maxResults, searchs, detailsMaxNum, winVars, i, dLatch,
                 detailLinkGroups, eHow, sessVars, content, response>>
  /\ UNCHANGED urlVars
  /\ UNCHANGED busVars

\* line 230: countDownLatch.await(30_000) returns, by count or by timeout
detailLinkGroupsAwait(how) ==
  /\ pc = "dwait"
  /\ latchAwait(dLatch, how)
  /\ dHow' = how
  /\ BeginPageContent
  /\ UNCHANGED <<via, maxResults, searchs, detailsMaxNum, winVars, i, dLatch,
                 detailLinkGroups, eHow, sessVars, content, response>>
  /\ UNCHANGED urlVars
  /\ UNCHANGED busVars

\* lines 266-271: chrome.tabs.create of link (i, j) settles; a rejection leaves
\* doPageContent, deepSearch and execute
extractionTabCreate(ok) ==
  LET s == Sid("e", cursor[1], cursor[2])
      pos == LoopPos(detailLinkGroups, cursor[1], cursor[2] + 1) IN
  /\ pc = "extract"
  /\ IF ok
       THEN /\ searchInfo' = [searchInfo EXCEPT !.running = @ + 1]
            /\ st' = [st EXCEPT ![s] = "listening"]
            /\ eventMap' = addListener(eventMap, s)
            /\ tabs' = tabs \cup {s}
            /\ cursor' = pos
            /\ pc' = IF pos = <<0, 0>> THEN "ewait" ELSE "extract"
       ELSE /\ pc' = "rejected"
            /\ UNCHANGED <<searchInfo, st, eventMap, tabs, cursor>>
  /\ UNCHANGED <<via, maxResults, searchs, detailsMaxNum, winVars, phase1Vars,
                 detailLinkGroups, eLatch, eHow, entered, cd, content, response>>
  /\ UNCHANGED urlVars
  /\ UNCHANGED busVars

ContentOutcomes ==
  {[kind |-> k, content |-> "unset"] :
      k \in {"injectThrows", "sendThrows", "noResult"}}
  \cup {[kind |-> "result", content |-> c] : c \in {"text", "empty"}}

\* the try block writing the content without counting the success
onResult_noCount(info) == info

\* lines 291-293
onResult(info) == [info EXCEPT !.succeed = @ + 1]

\* the catch block counting the failure without recording the link
onError_noPush(info, link) == [info EXCEPT !.failed = @ + 1]

\* lines 294-297
onError(info, link) ==
  [info EXCEPT !.failed = @ + 1, !.failedLinks = Append(@, link)]

\* the finally block without searchInfo.running--
onFinally_keepsRunning(info) == info

\* lines 299-300 on searchInfo
onFinally(info) == [info EXCEPT !.running = @ - 1]

\* lines 281-303: the "complete" branch of the extraction listener from its
\* awaits on: try, catch, finally
extractionResume(s, out) ==
  /\ ~MicrotaskPending
  /\ s \in ESids
  /\ st[s] = "handling"
  /\ IF out.kind = "result"
       THEN /\ content' = [content EXCEPT ![s] = out.content]
            /\ searchInfo' = onFinally(onResult(searchInfo))
            /\ st' = [st EXCEPT ![s] = "succeed"]
       ELSE /\ searchInfo' = onFinally(onError(searchInfo, s))
            /\ st' = [st EXCEPT ![s] = "failed"]
            /\ UNCHANGED content
  /\ eLatch' = countDown(eLatch)
  /\ cd' = [cd EXCEPT ![s] = @ + 1]
  /\ tabs' = tabs \ {s}
  /\ eventMap' = removeListener(eventMap, s)
  /\ UNCHANGED <<taskVars, winVars, phase1Vars, detailLinkGroups, cursor, eHow,
                 entered, response>>
  /\ UNCHANGED urlVars
  /\ UNCHANGED busVars

\* the links of the group returned as they are, unfiltered
filterContent_keepsAll(links, g, k) == [n \in 1..Len(links) |-> Sid("e", g, n)]

\* links.filter(s => s.content) on result[0]?.links || [] (lines 50-51)
RECURSIVE filterContent(_, _, _)
filterContent(links, g, k) ==
  IF k > Len(links) THEN <<>>
  ELSE (IF content[Sid("e", g, k)] = "text" THEN <<Sid("e", g, k)>> ELSE <<>>)
       \o filterContent(links, g, k + 1)

executeReturn ==
  IF Len(detailLinkGroups) = 0 THEN <<>>
  ELSE filterContent(detailLinkGroups[1].links, 1, 1)

\* the await of line 313 unsubscribing every session left when it times out
pageContentAwait_cancelsSessions(how) ==
  /\ pc = "ewait"
  /\ latchAwait(eLatch, how)
  /\ eHow' = how
  /\ removedWindows' = IF closeWindow THEN removedWindows \cup {window}
                       ELSE removedWindows
  /\ response' = IF via = "execute" THEN executeReturn ELSE <<>>
  /\ pc' = "returned"
  /\ eventMap' = IF how = "timeout" THEN {} ELSE eventMap
  /\ UNCHANGED <<via, maxResults, searchs, detailsMaxNum, window, closeWindow,
                 phase1Vars, detailLinkGroups, searchInfo, cursor, eLatch,
                 st, entered, cd, tabs, content>>
  /\ UNCHANGED urlVars
  /\ UNCHANGED busVars

\* line 313: countDownLatch.await(60_000) returns; doPageContent returns
\* searchInfo, deepSearch removes the window it created and returns (lines
\* 158-161), execute filters the links (lines 50-51)
pageContentAwait(how) ==
  /\ pc = "ewait"
  /\ latchAwait(eLatch, how)
  /\ eHow' = how
  /\ removedWindows' = IF closeWindow THEN removedWindows \cup {window}
                       ELSE removedWindows
  /\ response' = IF via = "execute" THEN executeReturn ELSE <<>>
  /\ pc' = "returned"
  /\ UNCHANGED <<via, maxResults, searchs, detailsMaxNum, window, closeWindow,
                 phase1Vars, detailLinkGroups, searchInfo, cursor, eLatch,
                 sessVars, content>>
  /\ UNCHANGED urlVars
  /\ UNCHANGED busVars

Next ==
  \/ \E kind \in {"notObject", "null", "noQuery", "valid"},
        mr \in {<<>>} \cup {<<n>> : n \in 0..MaxNum} : execute(kind, mr)
  \/ \E n \in 1..MaxSearch, num \in 1..MaxNum, win \in BOOLEAN : deepSearch(n, num, win)
  \/ \E ok \in BOOLEAN : windowsCreate(ok)
  \/ \E ok \in BOOLEAN : discoveryTabCreate(ok)
  \/ \E t \in Sids, status \in {"loading", "complete", "unloaded"} : publish(t, status)
  \/ \E s \in DSids, out \in DetailLinksOutcomes : discoveryResume(s, out)
  \/ \E how \in {"count", "timeout"} : detailLinkGroupsAwait(how)
  \/ \E ok \in BOOLEAN : extractionTabCreate(ok)
  \/ \E s \in ESids, out \in ContentOutcomes : extractionResume(s, out)
  \/ \E how \in {"count", "timeout"} : pageContentAwait(how)

Spec == Init /\ [][Next]_vars

\* ---- buildDeepSearchUrl on its own: one call on any target url and keyword ----
UrlInit ==
  /\ TaskInit
  /\ targetUrl \in TargetUrls
  /\ searchKeyword \in Keywords
  /\ built = NoUrl
  /\ BusIdle

callBuildDeepSearchUrl ==
  /\ built = NoUrl
  /\ built' = buildDeepSearchUrl(targetUrl, searchKeyword)
  /\ UNCHANGED <<taskVars, winVars, phase1Vars, phase2Vars, sessVars,
                 detailLinkGroups, searchInfo, content, response, targetUrl,
                 searchKeyword>>
  /\ UNCHANGED busVars

UrlNext == callBuildDeepSearchUrl

UrlSpec == UrlInit /\ [][UrlNext]_vars

\* ---- the subscription ids of two tasks on one bus ----
modelVars == <<taskVars, winVars, phase1Vars, phase2Vars, sessVars,
               detailLinkGroups, searchInfo, content, response, urlVars>>

\* a millisecond passes
clockTick ==
  /\ now < MaxClock
  /\ now' = now + 1
  /\ UNCHANGED <<modelVars, taskIds, listeners, subscribed>>

\* line 47: taskId = new Date().getTime() + ""
startTask(t) ==
  /\ taskIds[t] = <<>>
  /\ taskIds' = [taskIds EXCEPT ![t] = <<now>>]
  /\ UNCHANGED <<modelVars, now, listeners, subscribed>>

\* lines 193 and 271: taskId + "_" + i and taskId + "_" + i + "_" + j
eventId(s) ==
  IF s.ph = "d" THEN taskIds[s.task] \o <<"_", s.i>>
  ELSE taskIds[s.task] \o <<"_", s.i, "_", s.j>>

\* lines 195-224 and 273-310: addListener(callback, eventId); the extraction
\* sessions of a task come after its discovery loop
subscribe(s) ==
  /\ taskIds[s.task] # <<>>
  /\ subscribed[s] = "none"
  /\ s.ph = "e" =>
       subscribed[[task |-> s.task, ph |-> "d", i |-> 0, j |-> 0]] # "none"
  /\ listeners' = msgEventAdd(listeners, eventId(s), s)
  /\ subscribed' = [subscribed EXCEPT ![s] = "on"]
  /\ UNCHANGED <<modelVars, now, taskIds>>

\* the callback of s is called with the terminal event of its tab and removes
\* its id (lines 200, 222, 279, 308); a callback that is no longer in the map
\* is not called
terminalEvent(s) ==
  /\ subscribed[s] = "on"
  /\ eventId(s) \in DOMAIN listeners
  /\ listeners[eventId(s)] = s
  /\ listeners' = msgEventRemove(listeners, eventId(s))
  /\ subscribed' = [subscribed EXCEPT ![s] = "off"]
  /\ UNCHANGED <<modelVars, now, taskIds>>

BusNext ==
  \/ clockTick
  \/ \E t \in Tasks : startTask(t)
  \/ \E s \in BusSessions : subscribe(s)
  \/ \E s \in BusSessions : terminalEvent(s)

BusSpec == Init /\ [][BusNext]_vars

\* The browser settles every window and tab creation call and the event loop
\* runs every timer and every ready continuation.  Nothing is assumed of the
\* lifecycle events, nor of injectScript and sendMessage.
FairSpec ==
  /\ Spec
  /\ WF_vars(\E ok \in BOOLEAN : windowsCreate(ok))
  /\ WF_vars(\E ok \in BOOLEAN : discoveryTabCreate(ok))
  /\ WF_vars(\E how \in {"count", "timeout"} : detailLinkGroupsAwait(how))
  /\ WF_vars(\E ok \in BOOLEAN : extractionTabCreate(ok))
  /\ WF_vars(\E how \in {"count", "timeout"} : pageContentAwait(how))

\* ---- properties ----
Terminated(s) == st[s] \in {"done", "threw", "unloaded", "succeed", "failed"}

\* C1: no TabSession of either phase enters the terminal handling of its
\* listener (the "complete" or the "unloaded" branch) more than once, whatever
\* events are published for its tab.
C1_TerminalAtMostOnce == \A s \in Sids : entered[s] <= 1

\* a discovery session and an extraction session have both terminated, one by
\* "complete" and one by "unloaded", and a further discovery handler is in
\* flight with its tab still open
C1_Witness ==
  \E d \in DSids, e \in ESids :
     /\ st[d] = "done" /\ entered[d] = 1
     /\ st[e] = "unloaded" /\ entered[e] = 1
     /\ \E h \in DSids : st[h] = "handling" /\ h \in tabs /\ entered[h] = 1

\* C2: succeed + failed <= total in every reachable state of the SearchInfo.
C2_SucceedFailedWithinTotal ==
  searchInfo.succeed + searchInfo.failed <= searchInfo.total

\* C3: failedLinks is as long as the failed counter says and holds no link
\* twice.
C3_FailedLinks ==
  /\ Len(searchInfo.failedLinks) = searchInfo.failed
  /\ \A a, b \in 1..Len(searchInfo.failedLinks) :
        searchInfo.failedLinks[a] = searchInfo.failedLinks[b] => a = b

\* two links have failed, in completion order and not in request order
C3_Witness ==
  /\ searchInfo.failed = 2
  /\ Len(searchInfo.failedLinks) = 2
  /\ searchInfo.failedLinks[1].j > searchInfo.failedLinks[2].j

\* C4: every task started with a valid request finishes: deepSearch returns,
\* or a creation call that threw has rejected it (what the claim's assumption
\* rules out); no lifecycle event and no answer of a tab is needed for it.
C4_TaskFinishes ==
  (pc \in {"createWindow", "discover", "dwait", "extract", "ewait"})
     ~> (pc \in {"returned", "rejected"})

\* the task has returned through both timeouts while a tab never reported a
\* lifecycle event and the handler of another never got its answer
C4_Witness ==
  /\ pc = "returned"
  /\ dHow = "timeout"
  /\ eHow = "timeout"
  /\ \E s \in Sids : st[s] = "listening"
  /\ \E s \in Sids : st[s] = "handling"

\* C5: no failure of a tab-open, injection or messaging call rejects the task:
\* the only rejection of a valid request is a window that could not be
\* created.
C5_PartialFailureNeverRejects == pc = "rejected" => window = "none"

\* C6: a session whose terminal handling has finished, normally or with an
\* error, has counted down the barrier of its phase exactly once.
C6_CountDownExactlyOnce == \A s \in Sids : Terminated(s) => cd[s] = 1

\* C7: a session whose terminal handling has finished, normally or with an
\* error, has its tab closed and its id off the event bus.
C7_ClosedAndUnsubscribed ==
  \A s \in Sids : Terminated(s) => s \notin tabs /\ s \notin eventMap

\* C8: only the window deepSearch created is ever removed, never the caller's,
\* only once doPageContent has returned, and whenever the task has ended with
\* a window of its own.
C8_WindowLifecycle ==
  /\ removedWindows \subseteq {"created"}
  /\ removedWindows # {} => pc = "returned" /\ closeWindow
  /\ (window = "created" /\ pc \in {"returned", "rejected"})
        => removedWindows = {"created"}

ResponseLinks == {response[k] : k \in 1..Len(response)}
FailedLinks == {searchInfo.failedLinks[k] : k \in 1..Len(searchInfo.failedLinks)}

ResponseSound ==
  \A l \in ResponseLinks :
     content[l] = "text" /\ st[l] = "succeed" /\ l \notin FailedLinks

ExtractionLinks ==
  {s \in ESids : /\ s.i <= Len(detailLinkGroups)
                 /\ s.j <= Len(detailLinkGroups[s.i].links)}

\* C10: when every link's tab reached "complete" and every handler finished
\* with the barrier released by its count, the task has returned, succeed
\* counts the links that got a response, failed the links that got none or
\* whose injection or messaging threw, and failedLinks holds exactly those.
C10_FinalCounts ==
  ( /\ ExtractionLinks # {}
    /\ \A s \in ExtractionLinks : st[s] \in {"succeed", "failed"}
    /\ eHow # "timeout" )
  => /\ pc = "returned" \/ (pc = "ewait" /\ eLatch = 0)
     /\ searchInfo.succeed =
          Cardinality({s \in ExtractionLinks : st[s] = "succeed"})
     /\ searchInfo.failed =
          Cardinality({s \in ExtractionLinks : st[s] = "failed"})
     /\ FailedLinks = {s \in ExtractionLinks : st[s] = "failed"}

\* two links, one answered and one failed, and the task returned by the count
C10_Witness ==
  /\ pc = "returned" /\ eHow = "count"
  /\ Cardinality(ExtractionLinks) = 2
  /\ searchInfo.succeed = 1 /\ searchInfo.failed = 1
  /\ Len(searchInfo.failedLinks) = 1
  /\ \A s \in ExtractionLinks : st[s] \in {"succeed", "failed"}

\* C11: every LinkGroup appended by discovery holds at most detailsMaxNum
\* links, namely the first links of the tab's response in their order; a
\* missing response or one without a links field gives a LinkGroup with no
\* links; extraction opens no tab for a link that the truncation cut off.
C11_Appended(s, out) ==
  LET g == detailLinkGroups'[Len(detailLinkGroups')] IN
  /\ Len(detailLinkGroups') = Len(detailLinkGroups) + 1
  /\ g.search = s.i
  /\ Len(g.links) <= detailsMaxNum
  /\ Len(g.links) = Min(detailsMaxNum, Len(out.links))
  /\ \A k \in 1..Len(g.links) : g.links[k] = out.links[k]
  /\ out.kind \in {"noResponse", "noLinks"} => g.links = <<>>

C11_NoTabBeyondTruncation ==
  \A s \in ESids : st[s] # "none" =>
     /\ s.j <= detailsMaxNum
     /\ s \in ExtractionLinks

C11_Truncation ==
  /\ [][\A s \in DSids, out \in DetailLinksOutcomes :
          (discoveryResume(s, out) /\ st'[s] = "done") => C11_Appended(s, out)]_vars
  /\ [](\A g \in 1..Len(detailLinkGroups) :
          Len(detailLinkGroups[g].links) <= detailsMaxNum)
  /\ []C11_NoTabBeyondTruncation

\* a group cut to detailsMaxNum links, fewer than a page can answer, next to
\* a group without links, with the extraction loop run to its end
C11_Witness ==
  /\ pc \in {"ewait", "returned"}
  /\ detailsMaxNum < MaxLinks
  /\ \E g, h \in 1..Len(detailLinkGroups) :
        /\ Len(detailLinkGroups[g].links) = detailsMaxNum
        /\ detailLinkGroups[h].links = <<>>
        /\ \A k \in 1..detailsMaxNum : st[Sid("e", g, k)] # "none"
        /\ \A k \in (detailsMaxNum + 1)..MaxLinks : st[Sid("e", g, k)] = "none"

\* C12: a discovery session whose tab is unloaded before it completes appends
\* no LinkGroup, then or later, and counts down the discovery barrier; so
\* once every other session of the phase has terminated as well, the await of
\* the phase is released by the count, ahead of its timeout.
DiscoveryOver(k) ==
  Terminated(Sid("d", k, 0)) \/ st[Sid("d", k, 0)] = "openFailed"

C12_UnloadedAppendsNothing ==
  \A d \in DSids : st[d] = "unloaded" =>
     /\ cd[d] = 1
     /\ d \notin eventMap
     /\ \A g \in 1..Len(detailLinkGroups) : detailLinkGroups[g].search # d.i

C12_UnloadedDiscovery ==
  /\ C12_UnloadedAppendsNothing
  /\ (/\ pc = "dwait"
      /\ \E d \in DSids : st[d] = "unloaded"
      /\ \A k \in 1..searchs : DiscoveryOver(k)) => dLatch = 0

\* C13: buildDeepSearchUrl is a function of (targetUrl, keyword).  The host of
\* targetUrl (scheme and path stripped) matches a table entry when it equals
\* the entry's host or ends with "." or "/" followed by it; the first matching
\* entry in the order bing.com, duckduckgo.com, google.com is used; a host
\* matching no entry gets the default adapter, whose query is "site:" + host
\* + " " + keyword.  "https://www.google.com/x" and "https://google.com"
\* resolve to the same adapter.
HostPortion(url) ==
  LET p == indexOf(url, <<"/", "/">>, 0)
      rest == IF p > -1 THEN substringFrom(url, p + 2) ELSE url
      q == indexOf(rest, <<"/">>, 0) IN
  IF q > -1 THEN substring(rest, 0, q) ELSE rest

TableHosts == <<Str_bing, Str_duckduckgo, Str_google>>

HostMatches(host, entry) ==
  \/ host = entry
  \/ endsWith(host, <<".">> \o entry)
  \/ endsWith(host, <<"/">> \o entry)

FirstMatch(host) ==
  LET found == {j \in 1..Len(TableHosts) : HostMatches(host, TableHosts[j])} IN
  IF found = {} THEN 0 ELSE CHOOSE j \in found : \A k \in found : j <= k

Url_wwwGoogleX == <<"h", "t", "t", "p", "s", ":", "/", "/", "w", "w", "w", ".", "g", "o", "o", "g", "l", "e", ".", "c", "o", "m", "/", "x">>
Url_google == <<"h", "t", "t", "p", "s", ":", "/", "/", "g", "o", "o", "g", "l", "e", ".", "c", "o", "m">>

C13_AdapterResolution ==
  built # NoUrl =>
    LET host == HostPortion(targetUrl)
        j == FirstMatch(host) IN
    /\ built = buildDeepSearchUrl(targetUrl, searchKeyword)
    /\ IF j = 0
         THEN /\ built.filename = "google.js"
              /\ built.url = Str_googleSearch \o
                   encodeURIComponent(Str_site \o host \o <<" ">> \o searchKeyword)
         ELSE /\ built.filename = filename(TableHosts[j])
              /\ built.url = buildSearchUrl(TableHosts[j], targetUrl, searchKeyword)
    /\ targetUrl \in {Url_wwwGoogleX, Url_google} =>
         /\ built.filename = "google.js"
         /\ built.url = Str_googleSearch \o encodeURI(searchKeyword)

\* a target on a subdomain of a table host, with a path, resolved to the
\* entry's adapter; the default adapter is the other case
C13_Witness ==
  /\ built # NoUrl
  /\ targetUrl = Url_wwwGoogleX
  /\ built.url = Str_googleSearch \o encodeURI(searchKeyword)

C13_WitnessDefault ==
  /\ built # NoUrl
  /\ FirstMatch(HostPortion(targetUrl)) = 0
  /\ HostPortion(targetUrl) = <<"x", "g", "o", "o", "g", "l", "e", ".", "c", "o", "m">>

\* C14: execute called with a value that is not an object, is null or has no
\* "query" property fails before any effect: no window is created, no tab is
\* opened, no listener is added to the event bus.
C14_NoEffect ==
  /\ window = "none"
  /\ removedWindows = {}
  /\ tabs = {}
  /\ eventMap = {}
  /\ \A s \in Sids : st[s] = "none"

C14_InvalidParams ==
  /\ [][\A kind \in {"notObject", "null", "noQuery"},
           mr \in {<<>>} \cup {<<n>> : n \in 0..MaxNum} :
          execute(kind, mr) =>
             /\ pc' = "invalid"
             /\ UNCHANGED <<via, searchs, winVars, sessVars, detailLinkGroups>>]_vars
  /\ [](pc = "invalid" => C14_NoEffect)
  /\ [][pc = "invalid" => pc' = "invalid" /\ C14_NoEffect']_vars

C14_Witness == pc = "invalid" /\ via = "none"

\* C15: when opening the tab of search request i fails in discovery, the
\* barrier is counted down exactly once for i, no listener is registered for
\* i, no LinkGroup is ever appended for i, and the loop goes on to open the
\* tabs of the later requests.
C15_OpenFailure ==
  \A d \in DSids : st[d] = "openFailed" =>
     /\ cd[d] = 1
     /\ entered[d] = 0
     /\ d \notin eventMap
     /\ d \notin tabs
     /\ \A g \in 1..Len(detailLinkGroups) : detailLinkGroups[g].search # d.i
     /\ i > d.i
     /\ pc # "discover" =>
          \A k \in (d.i + 1)..searchs : st[Sid("d", k, 0)] # "none"

\* the first tab could not be opened, the second one was and answered
C15_Witness ==
  /\ st[Sid("d", 1, 0)] = "openFailed"
  /\ st[Sid("d", 2, 0)] = "done"
  /\ Len(detailLinkGroups) = 1
  /\ dLatch = 0

\* C16: an extraction session whose tab is unloaded before it completes
\* decrements running by one and counts down the extraction barrier once, and
\* leaves succeed, failed, failedLinks and the content of its link as they
\* were, in that step and on every later event of the tab.
C16_UnloadedStep ==
  \A s \in ESids : (st[s] = "listening" /\ st'[s] = "unloaded") =>
     /\ searchInfo' = [searchInfo EXCEPT !.running = @ - 1]
     /\ eLatch' = countDown(eLatch)
     /\ cd' = [cd EXCEPT ![s] = @ + 1]
     /\ content' = content

C16_UnloadedFor ==
  \A s \in ESids : st[s] = "unloaded" =>
     /\ cd[s] = 1
     /\ entered[s] = 1
     /\ s \notin eventMap
     /\ content[s] = "unset"
     /\ s \notin FailedLinks

C16_UnloadedExtraction ==
  /\ [][C16_UnloadedStep]_vars
  /\ []C16_UnloadedFor
  /\ [][\A s \in ESids : st[s] = "unloaded" => st'[s] = "unloaded"]_vars

\* the only link of the task was unloaded: the barrier released the waiter
\* with nothing succeeded and nothing failed
C16_Witness ==
  /\ st[Sid("e", 1, 1)] = "unloaded"
  /\ pc = "returned"
  /\ eHow = "count"
  /\ searchInfo.total = 1
  /\ searchInfo.running = 0
  /\ searchInfo.succeed = 0
  /\ searchInfo.failed = 0

\* C17: when the await of a phase barrier returns by timeout, the timeout
\* changes nothing but the waiter: every session whose terminal event has not
\* fired stays subscribed with its tab open, and when the event fires later
\* it has the effects it has before a timeout (it appends its LinkGroup, or
\* updates succeed, failed, failedLinks and running, and closes its tab), also
\* after searchInfo has been returned.
C17_TimeoutStep ==
  /\ (pc = "dwait" /\ dHow = "none" /\ dHow' = "timeout") =>
        UNCHANGED <<sessVars, detailLinkGroups, content, dLatch>>
  /\ (pc = "ewait" /\ eHow = "none" /\ eHow' = "timeout") =>
        UNCHANGED <<sessVars, detailLinkGroups, content, dLatch, eLatch,
                    searchInfo>>

C17_StillSubscribed ==
  \A s \in Sids :
     /\ st[s] = "listening" => s \in eventMap /\ s \in tabs
     /\ st[s] = "handling" => s \in tabs

C17_TerminalEffects ==
  /\ \A s \in DSids : (st[s] = "handling" /\ st'[s] = "done") =>
        /\ Len(detailLinkGroups') = Len(detailLinkGroups) + 1
        /\ detailLinkGroups'[Len(detailLinkGroups')].search = s.i
        /\ s \notin tabs'
  /\ \A s \in ESids : (st[s] = "handling" /\ st'[s] = "succeed") =>
        /\ searchInfo' = [searchInfo EXCEPT !.succeed = @ + 1, !.running = @ - 1]
        /\ s \notin tabs'
  /\ \A s \in ESids : (st[s] = "handling" /\ st'[s] = "failed") =>
        /\ searchInfo' = [searchInfo EXCEPT !.failed = @ + 1, !.running = @ - 1,
                                            !.failedLinks = Append(@, s)]
        /\ s \notin tabs'
  /\ \A s \in Sids : (st[s] = "listening" /\ st'[s] = "unloaded") =>
        /\ s \notin tabs'
        /\ cd' = [cd EXCEPT ![s] = @ + 1]

ExtractionTabsOpened == {s \in ESids : st[s] # "none"}

C18_TabsWithinTotal ==
  pc \in {"extract", "ewait", "returned", "rejected"} =>
     /\ Cardinality(ExtractionTabsOpened) <= searchInfo.total
     /\ pc \in {"ewait", "returned"} =>
          Cardinality(ExtractionTabsOpened) = searchInfo.total

\* C19: whenever the await of the extraction barrier returns because the
\* count reached 0, every link counted in total has terminated: running is 0
\* and succeed + failed + the links unloaded before loading equals total.
ExtractionUnloaded == {s \in ESids : st[s] = "unloaded"}

\* the state in which the count has released the waiter of line 313
C19_ReleasedByCount ==
  (pc = "ewait" /\ eLatch = 0) =>
     /\ searchInfo.running = 0
     /\ searchInfo.succeed + searchInfo.failed
          + Cardinality(ExtractionUnloaded) = searchInfo.total

\* C20: running is never negative and equals the number of extraction
\* sessions whose tab has been opened and whose terminal handling has not
\* finished; running + succeed + failed never exceeds the number of
\* extraction tabs opened so far.
ExtractionInFlight == {s \in ESids : st[s] \in {"listening", "handling"}}

C20_Running ==
  /\ searchInfo.running >= 0
  /\ searchInfo.running = Cardinality(ExtractionInFlight)
  /\ searchInfo.running + searchInfo.succeed + searchInfo.failed
       <= Cardinality(ExtractionTabsOpened)

\* two tabs opened: one page has answered, the other is still loading
C20_Witness ==
  /\ searchInfo.running = 1
  /\ searchInfo.succeed = 1
  /\ Cardinality(ExtractionTabsOpened) = 2
  /\ Cardinality(ExtractionInFlight) = 1

\* C21: any two TabSessions subscribed on the shared bus at the same time have
\* different ids, within one task across both phases and across two tasks
\* running at the same time whose taskId is the millisecond of their start;
\* so no session's subscription is ever replaced or removed by another one.
C21_WithinOneTask ==
  \A s1, s2 \in BusSessions :
     (s1 # s2 /\ s1.task = s2.task /\ subscribed[s1] = "on" /\ subscribed[s2] = "on")
        => eventId(s1) # eventId(s2)

C21_UniqueIds ==
  /\ \A s1, s2 \in BusSessions :
        (s1 # s2 /\ subscribed[s1] = "on" /\ subscribed[s2] = "on")
           => eventId(s1) # eventId(s2)
  /\ \A s \in BusSessions : subscribed[s] = "on" =>
        /\ eventId(s) \in DOMAIN listeners
        /\ listeners[eventId(s)] = s

====
